---- MODULE Spec2Model ----
(***************************************************************************)
(* The Telegram feedback session of src/rust/telegram/commands.rs:         *)
(* start_telegram_sync spawns start_telegram_listener, which long-polls    *)
(* the bot API, routes every update and keeps the session state            *)
(* (offset, selected_options, options_message_id, user_input).             *)
(***************************************************************************)
EXTENDS Integers, Sequences, FiniteSets, TLC

\* ------------------------------------------------------------------ bounds
MaxSessions == 2      \* calls of start_telegram_sync that reach the spawn
MaxBacklog == 11      \* stale updates pending at the API at the beginning
MaxInputs == 3        \* what the environment does in one run: calls of
                      \* start_telegram_sync, arriving updates, failing polls
StaleInputs == 2      \* the same, in a run that begins with a stale backlog
LiveInputs == 2       \* the same, in a run checked for progress
MaxEdits == 2         \* calls of set_telegram_config during one start_telegram_sync
MaxMoves == 2         \* calls of update_window_position in one run

\* ------------------------------------------------------- program constants
StartLimit == 10      \* get_updates().limit(10) of the startup call
MaxTimeoutCount == 30 \* const MAX_TIMEOUT_COUNT: u32 = 30 of auto_get_chat_id
PositionLimit == 10000 \* (-10000..=10000) of is_position_valid
MaxI32 == 2147483647  \* i32::MAX
MinI32 == -MaxI32 - 1 \* i32::MIN

Sessions == 1..MaxSessions
NoMsg == "none"       \* Option<i32>::None of options_message_id; a query without message

\* ---------------------------------------------------------------- updates
\* Message ids of the chat: the options message, the operation message, a
\* message of another origin that carries a toggle keyboard, a user's message.
OptionsMsg == "m1"
OperationMsg == "m2"
OtherKbMsg == "m3"
UserMsg == "m4"

SendCommand == "/send"
ContinueCommand == "/continue"

\* The shapes of update the API can deliver (update.kind and its payload):
\* data is the callback data's action, label the text after "toggle:", kb
\* says whether the message's reply markup has a "toggle:" button. A callback
\* query can come without its message (callback_query.message is an Option).
Shapes ==
  { [kind |-> "callback", msg |-> OptionsMsg,   data |-> "toggle",   label |-> "Yes", text |-> "", kb |-> FALSE],
    [kind |-> "callback", msg |-> OptionsMsg,   data |-> "toggle",   label |-> "Old", text |-> "", kb |-> FALSE],
    [kind |-> "callback", msg |-> NoMsg,        data |-> "toggle",   label |-> "Yes", text |-> "", kb |-> FALSE],
    [kind |-> "callback", msg |-> OperationMsg, data |-> "send",     label |-> "", text |-> "", kb |-> FALSE],
    [kind |-> "callback", msg |-> OperationMsg, data |-> "continue", label |-> "", text |-> "", kb |-> FALSE],
    [kind |-> "callback", msg |-> OperationMsg, data |-> "enhance",  label |-> "", text |-> "", kb |-> FALSE],
    [kind |-> "message",  msg |-> UserMsg,      data |-> "", label |-> "", text |-> "confirmed", kb |-> FALSE],
    [kind |-> "message",  msg |-> UserMsg,      data |-> "", label |-> "", text |-> SendCommand, kb |-> FALSE],
    [kind |-> "message",  msg |-> UserMsg,      data |-> "", label |-> "", text |-> ContinueCommand, kb |-> FALSE],
    [kind |-> "message",  msg |-> OtherKbMsg,   data |-> "", label |-> "", text |-> "pick",      kb |-> TRUE],
    [kind |-> "other",    msg |-> NoMsg,        data |-> "", label |-> "", text |-> "",          kb |-> FALSE] }

\* The backlog that predates every session: stale plain messages.
StaleShape ==
  [kind |-> "message", msg |-> UserMsg, data |-> "", label |-> "", text |-> "stale", kb |-> FALSE]

MkUpdate(id, sh) ==
  [id |-> id, kind |-> sh.kind, msg |-> sh.msg, data |-> sh.data, label |-> sh.label,
   text |-> sh.text, kb |-> sh.kb]

\* The predefined_options a caller passes to start_telegram_sync.
OptionLists == { <<>>, <<"Yes", "No">> }

Range(f) == { f[i] : i \in DOMAIN f }

VARIABLES
  pending,            \* updates the API holds (not yet confirmed), ascending ids
  nextId,             \* id the API gives the next update
  budget,             \* inputs the environment may still give in this run
  pc,                 \* per session: "none" | "start" | "polling" | "routing" | "backoff"
  predefined,         \* predefined_options of the session
  offset,             \* offset
  selected,           \* selected_options
  optionsMessageId,   \* options_message_id
  userInput,          \* user_input
  batch,              \* the Vec<Update> the for loop is iterating over
  pos,                \* position of the for loop in batch
  log,                \* per session: everything the listener did, in order
  fails,              \* getUpdates failures since the last success
  waits,              \* 5 s backoff sleeps since the last success
  callFailed,         \* the BotClient call of the last routed update failed
  backlog,            \* ids pending at the API when the startup call was made
  startOffset,        \* offset right after the startup call
  config,             \* state.config.telegram_config, shared behind the mutex
  edits,              \* calls of set_telegram_config made so far
  syncPc,             \* where the call of start_telegram_sync is
  result,             \* what start_telegram_sync returned: "none" | "Ok" | "Err"
  local,              \* (enabled, bot_token, chat_id) as read at the first lock
  configAtRead,       \* the whole telegram_config as it was at that first lock
  apiUrl,             \* api_url_option of start_telegram_sync's core
  listenerPc,         \* the spawned task: "none" | "spawned" | "polling"
  listenerUrl,        \* api_url of the listener's core
  calls,              \* the BotClient calls made, with the core values each used
  detection,          \* the task auto_get_chat_id spawns: its position,
                      \* timeout_count, the events emitted, the last poll's outcome
  window,             \* update_window_position: the stored position, the saved
                      \* one, the calls made and the last call's arguments and result
  cast                \* update.id.0 as i32 + 1: the id and what the offset becomes

cfgVars == << config, edits, syncPc, result, local, configAtRead, apiUrl,
              listenerPc, listenerUrl, calls >>

listenerVars == << pending, nextId, budget, pc, predefined, offset, selected,
                   optionsMessageId, userInput, batch, pos, log, fails, waits,
                   callFailed, backlog, startOffset >>

auxVars == << detection, window, cast >>

vars == << listenerVars, cfgVars, auxVars >>

\* ------------------------------------------------------------ the bot API
\* getUpdates(offset): the API forgets the updates below offset and answers
\* with the ones it still holds.
Answer(pend, off) == SelectSeq(pend, LAMBDA u : u.id >= off)

\* getUpdates().limit(n) without offset: the n oldest updates it holds.
AnswerLimited(pend, n) == SubSeq(pend, 1, IF Len(pend) < n THEN Len(pend) ELSE n)

\* ---------------------------------------------------------- pure helpers
\* (mutant) the offset stays on the update just routed
NextOffsetSame(id) == id

\* offset = update.id.0 as i32 + 1
NextOffset(id) == id + 1

\* if let Some(update) = updates.last() { offset = update.id.0 as i32 + 1; }
StartupOffset(updates, off) ==
  IF updates = <<>> THEN off ELSE NextOffset(updates[Len(updates)].id)

\* (mutant) every session treated as one with options
HasOptionsAlways(opts) == TRUE

\* let has_options = !predefined_options.is_empty();
HasOptions(opts) == opts # <<>>

\* (mutant) a toggle that only ever inserts
ToggleInsertOnly(sel, option) == sel \cup {option}

\* selected_options.contains / remove / insert
Toggle(sel, option) ==
  IF option \in sel THEN sel \ {option} ELSE sel \cup {option}

\* the `selected` flag reported with the toggle
ToggleSelected(sel, option) == option \notin sel

\* options_message_id after a callback query that carries `msg`
OwnerAfterCallback(owner, hasOptions, msg) ==
  IF msg # NoMsg /\ owner = NoMsg /\ hasOptions THEN msg ELSE owner

\* options_message_id after a message whose markup has a toggle button
OwnerAfterMessage(owner, hasOptions, u) ==
  IF hasOptions /\ u.kb THEN u.msg ELSE owner

\* (mutant) new text appended to the text typed before
RecordUserInputAppend(old, text) == old \o text

\* user_input = text.clone();
RecordUserInput(old, text) == text

\* (mutant) the batch walked from its end
NextUpdateBackwards(updates, p) == updates[Len(updates) + 1 - p]

\* for update in updates: the p-th update of the answer
NextUpdate(updates, p) == updates[p]

\* (mutant) a failed call skips what follows, as `?` would
AfterCallAbort(ok, rest) == IF ok THEN rest ELSE <<>>

\* `let _ = core.send_message(..).await;` the result of the call is dropped
\* and what follows runs whatever the outcome.
AfterCall(ok, rest) == rest

\* (mutant) a failed poll starts over from the beginning
OffsetAfterFailureReset(off) == 0

\* Err(_) => sleep(5 s): the failed poll leaves offset alone.
OffsetAfterFailure(off) == off

\* (mutant) the loop ends with the batch
PcAfterBatchStop == "stopped"

\* the loop { } has no break: after the batch and the 1 s sleep it polls again
PcAfterBatch == "polling"
PcAfterBackoff == "polling"

\* ------------------------------------------------------------ the router
\* handle_callback_query: the CallbackQueryResult of a callback query, or
\* "none" when the data is no known marker.
HandleCallbackQuery(u) ==
  CASE u.data = "toggle"   -> [tag |-> "OptionToggled", option |-> u.label]
    [] u.data = "enhance"  -> [tag |-> "EnhancePressed", option |-> ""]
    [] u.data = "continue" -> [tag |-> "ContinuePressed", option |-> ""]
    [] u.data = "send"     -> [tag |-> "SendPressed", option |-> ""]
    [] OTHER               -> [tag |-> "none", option |-> ""]

\* handle_text_message: the TelegramEvent of a plain message, or "none" when
\* it has no body text.
HandleTextMessage(u) ==
  CASE u.text = ""              -> [tag |-> "none", text |-> ""]
    [] u.text = SendCommand     -> [tag |-> "SendPressed", text |-> ""]
    [] u.text = ContinueCommand -> [tag |-> "ContinuePressed", text |-> ""]
    [] OTHER                    -> [tag |-> "TextUpdated", text |-> u.text]

\* build_feedback_message(selected, user_input, is_continue): the continue
\* payload is fixed, the other one enumerates the options and the text.
BuildFeedbackMessage(sel, input, isContinue) ==
  IF isContinue THEN [opts |-> {}, text |-> "", flag |-> TRUE]
  ELSE [opts |-> sel, text |-> input, flag |-> FALSE]

\* -------------------------------------------------------------- the log
\* One entry per thing a listener did: t is "route" (an update entered the
\* match), "emit" (app_handle.emit), "send" (core.send_message) or "edit"
\* (core.update_inline_keyboard).
Entry(s, u, t, name, opts, text, flag, msg) ==
  [s |-> s, u |-> u, t |-> t, name |-> name, opts |-> opts, text |-> text,
   flag |-> flag, msg |-> msg]

Routed(s, u) ==
  Entry(s, u.id, "route", u.kind, {}, IF u.kind = "callback" THEN u.data ELSE u.text,
        FALSE, u.msg)
Emit(s, u, name, text, flag) == Entry(s, u.id, "emit", name, {}, text, flag, NoMsg)
SendFeedback(s, u, fb) == Entry(s, u.id, "send", "feedback", fb.opts, fb.text, fb.flag, NoMsg)
SendAck(s, u, input) == Entry(s, u.id, "send", "enhanceAck", {}, input, FALSE, NoMsg)
EditKeyboard(s, u, msg, sel) == Entry(s, u.id, "edit", "keyboard", sel, "", FALSE, msg)

\* (mutant) the edit goes to the message whose button was pressed
ToggleEditPressed(s, u, owner, sel) ==
  IF owner # NoMsg THEN <<EditKeyboard(s, u, u.msg, sel)>> ELSE <<>>

\* if let Some(msg_id) = options_message_id { core.update_inline_keyboard(
\*     msg_id, &predefined_options, &selected_vec) }
ToggleEdit(s, u, owner, sel) ==
  IF owner # NoMsg THEN <<EditKeyboard(s, u, owner, sel)>> ELSE <<>>

\* (mutant) an enhance prompt built without the typed text
EnhancePressedOutNoText(s, u, input, ok) ==
  <<SendAck(s, u, input)>> \o AfterCall(ok, <<Emit(s, u, "EnhancePressed", "", FALSE)>>)

\* EnhancePressed: the acknowledgment with user_input, then the event whose
\* text is the enhance prompt formatted around user_input
EnhancePressedOut(s, u, input, ok) ==
  <<SendAck(s, u, input)>> \o AfterCall(ok, <<Emit(s, u, "EnhancePressed", input, FALSE)>>)

\* (mutant) a feedback that forgets the typed text
SendPressedFeedbackNoText(sel, input) == BuildFeedbackMessage(sel, "", FALSE)

\* the feedback of a pressed Send: build_feedback_message(&selected_list, &user_input, false)
SendPressedFeedback(sel, input) == BuildFeedbackMessage(sel, input, FALSE)

\* the feedback of a pressed Continue: build_feedback_message(&[], "", true)
ContinuePressedFeedback == BuildFeedbackMessage({}, "", TRUE)

\* ------------------------------------------------ one update of the batch
\* What the CallbackQuery arm does with update u in session state st
\* (st.sel, st.owner, st.input); ok is the outcome of the BotClient call.
CallbackArm(s, u, st, hasOptions, ok) ==
  LET owner == OwnerAfterCallback(st.owner, hasOptions, u.msg)
      res == HandleCallbackQuery(u)
  IN CASE res.tag = "OptionToggled" ->
            IF hasOptions
            THEN LET sel == Toggle(st.sel, res.option)
                 IN [sel |-> sel, owner |-> owner, input |-> st.input,
                     called |-> owner # NoMsg,
                     out |-> <<Emit(s, u, "OptionToggled", res.option,
                                    ToggleSelected(st.sel, res.option))>>
                             \o ToggleEdit(s, u, owner, sel)]
            ELSE [sel |-> st.sel, owner |-> owner, input |-> st.input,
                  called |-> FALSE, out |-> <<>>]
       [] res.tag = "EnhancePressed" ->
            [sel |-> st.sel, owner |-> owner, input |-> st.input, called |-> TRUE,
             out |-> EnhancePressedOut(s, u, st.input, ok)]
       [] res.tag = "ContinuePressed" ->
            [sel |-> st.sel, owner |-> owner, input |-> st.input, called |-> TRUE,
             out |-> <<SendFeedback(s, u, ContinuePressedFeedback)>>
                     \o AfterCall(ok, <<Emit(s, u, "ContinuePressed", "", FALSE)>>)]
       [] res.tag = "SendPressed" ->
            [sel |-> st.sel, owner |-> owner, input |-> st.input, called |-> TRUE,
             out |-> <<SendFeedback(s, u, SendPressedFeedback(st.sel, st.input))>>
                     \o AfterCall(ok, <<Emit(s, u, "SendPressed", "", FALSE)>>)]
       [] OTHER ->
            [sel |-> st.sel, owner |-> owner, input |-> st.input,
             called |-> FALSE, out |-> <<>>]

\* What the Message arm does.
MessageArm(s, u, st, hasOptions, ok) ==
  LET owner == OwnerAfterMessage(st.owner, hasOptions, u)
      ev == HandleTextMessage(u)
  IN CASE ev.tag = "SendPressed" ->
            [sel |-> st.sel, owner |-> owner, input |-> st.input, called |-> TRUE,
             out |-> <<SendFeedback(s, u, SendPressedFeedback(st.sel, st.input))>>
                     \o AfterCall(ok, <<Emit(s, u, "SendPressed", "", FALSE)>>)]
       [] ev.tag = "ContinuePressed" ->
            [sel |-> st.sel, owner |-> owner, input |-> st.input, called |-> TRUE,
             out |-> <<SendFeedback(s, u, ContinuePressedFeedback)>>
                     \o AfterCall(ok, <<Emit(s, u, "ContinuePressed", "", FALSE)>>)]
       [] ev.tag = "TextUpdated" ->
            [sel |-> st.sel, owner |-> owner,
             input |-> RecordUserInput(st.input, ev.text), called |-> FALSE,
             out |-> <<Emit(s, u, "TextUpdated", ev.text, FALSE)>>]
       [] OTHER ->
            [sel |-> st.sel, owner |-> owner, input |-> st.input,
             called |-> FALSE, out |-> <<>>]

\* match update.kind { CallbackQuery, Message, _ }
RouteUpdate(s, u, st, hasOptions, ok) ==
  CASE u.kind = "callback" -> CallbackArm(s, u, st, hasOptions, ok)
    [] u.kind = "message"  -> MessageArm(s, u, st, hasOptions, ok)
    [] OTHER -> [sel |-> st.sel, owner |-> st.owner, input |-> st.input,
                 called |-> FALSE, out |-> <<>>]

\* ------------------------------------------------------ the configuration
\* Strings whose characters matter are sequences of one-character strings.
IsWhitespace(c) == c \in {" ", "\t"}

RECURSIVE TrimStart(_)
TrimStart(str) ==
  IF str # <<>> /\ IsWhitespace(Head(str)) THEN TrimStart(Tail(str)) ELSE str

RECURSIVE TrimEnd(_)
TrimEnd(str) ==
  IF str # <<>> /\ IsWhitespace(str[Len(str)])
  THEN TrimEnd(SubSeq(str, 1, Len(str) - 1)) ELSE str

\* (mutant) a check that forgets to trim
TrimNothing(str) == str

\* str::trim
Trim(str) == TrimEnd(TrimStart(str))

\* bot_token.trim().is_empty() || chat_id.trim().is_empty()
ConfigIncomplete(token, chat) == Trim(token) = <<>> \/ Trim(chat) = <<>>

BotTokens == { <<>>, <<" ", "\t">>, <<"a">>, <<" ", "b">> }
ChatIds == { <<>>, <<" ">>, <<"7">> }

\* telegram_constants::API_BASE_URL and a custom base URL
ApiBaseUrl == "https://api.telegram.org/bot"
CustomUrl == "https://proxy.example/bot"
ApiUrls == { ApiBaseUrl, CustomUrl }

\* if api_url == API_BASE_URL { None } else { Some(api_url) }
ApiUrlOption(url) == IF url = ApiBaseUrl THEN "None" ELSE url

TelegramConfigs ==
  [enabled : BOOLEAN, bot_token : BotTokens, chat_id : ChatIds, api_base_url : ApiUrls]

NoConfig == [enabled |-> FALSE, bot_token |-> <<>>, chat_id |-> <<>>, api_base_url |-> ApiBaseUrl]
NoLocal == [enabled |-> FALSE, bot_token |-> <<>>, chat_id |-> <<>>]

\* (mutant) the listener spawned whatever the operation message's outcome
ListenerSpawnedAnyway(ok, lpc) == "spawned"

\* core.send_operation_message(..).await.map_err(..)?; tokio::spawn(..):
\* the spawn is reached only past the `?`
ListenerAfterOperation(ok, lpc) == IF ok THEN "spawned" ELSE lpc

\* a BotClient call and the core values it was made with
Call(name, token, chat, url) == [call |-> name, token |-> token, chat |-> chat, url |-> url]

\* No call of start_telegram_sync is under way.
ConfigIdle ==
  /\ config = NoConfig
  /\ edits = 0
  /\ syncPc = "idle"
  /\ result = "none"
  /\ local = NoLocal
  /\ configAtRead = NoConfig
  /\ apiUrl = "unset"
  /\ listenerPc = "none"
  /\ listenerUrl = "unset"
  /\ calls = {}

\* ------------------------------------------- the other commands, at rest
NoDetection == [pc |-> "idle", count |-> 0, polls |-> 0, events |-> <<>>, last |-> "none"]
NoPosition == [set |-> FALSE, x |-> 0, y |-> 0]   \* position_x, position_y = None
NoWindow == [pos |-> NoPosition, saved |-> NoPosition, moves |-> 0,
             x |-> 0, y |-> 0, result |-> "none"]
NoCast == [pc |-> "idle", hi |-> 0, lo |-> 0, offset |-> 0]

\* auto_get_chat_id and update_window_position are not called and no update
\* id is being cast.
AuxIdle ==
  /\ detection = NoDetection
  /\ window = NoWindow
  /\ cast = NoCast

\* ---------------------------------------------------------------- actions
\* No session yet; the API holds n stale updates.
InitWith(n, inputs) ==
  /\ pending = [i \in 1..n |-> MkUpdate(i, StaleShape)]
  /\ nextId = n + 1
  /\ budget = inputs
  /\ pc = [s \in Sessions |-> "none"]
  /\ predefined = [s \in Sessions |-> <<>>]
  /\ offset = [s \in Sessions |-> 0]
  /\ selected = [s \in Sessions |-> {}]
  /\ optionsMessageId = [s \in Sessions |-> NoMsg]
  /\ userInput = [s \in Sessions |-> ""]
  /\ batch = [s \in Sessions |-> <<>>]
  /\ pos = [s \in Sessions |-> 1]
  /\ log = [s \in Sessions |-> <<>>]
  /\ fails = [s \in Sessions |-> 0]
  /\ waits = [s \in Sessions |-> 0]
  /\ callFailed = [s \in Sessions |-> FALSE]
  /\ backlog = [s \in Sessions |-> {}]
  /\ startOffset = [s \in Sessions |-> 0]

Init ==
  /\ \E n \in 0..MaxBacklog : InitWith(n, IF n = 0 THEN MaxInputs ELSE StaleInputs)
  /\ ConfigIdle
  /\ AuxIdle

InitLive == InitWith(0, LiveInputs) /\ ConfigIdle /\ AuxIdle

\* A listener in its for loop or in its backoff sleep touches its own locals
\* only: such steps commute with every step of the API and of the other
\* listeners, and are taken first.
Busy == \E s \in Sessions : pc[s] \in {"routing", "backoff"}

\* The remote user presses a button or writes a message: the API queues an update.
Arrive ==
  /\ budget > 0
  /\ ~Busy
  /\ \E sh \in Shapes : pending' = Append(pending, MkUpdate(nextId, sh))
  /\ nextId' = nextId + 1
  /\ budget' = budget - 1
  /\ UNCHANGED << pc, predefined, offset, selected, optionsMessageId, userInput,
                  batch, pos, log, fails, waits, callFailed, backlog,
                  startOffset >>
  /\ UNCHANGED cfgVars
  /\ UNCHANGED auxVars

\* start_telegram_sync reaches tokio::spawn: a new listener task exists, with
\* the locals start_telegram_listener declares before its startup call.
StartSync(s) ==
  /\ pc[s] = "none"
  /\ ~Busy
  /\ \A r \in Sessions : r < s => pc[r] # "none"
  /\ budget > 0
  /\ budget' = budget - 1
  /\ \E opts \in OptionLists : predefined' = [predefined EXCEPT ![s] = opts]
  /\ pc' = [pc EXCEPT ![s] = "start"]
  /\ offset' = [offset EXCEPT ![s] = 0]
  /\ selected' = [selected EXCEPT ![s] = {}]
  /\ optionsMessageId' = [optionsMessageId EXCEPT ![s] = NoMsg]
  /\ userInput' = [userInput EXCEPT ![s] = ""]
  /\ UNCHANGED << pending, nextId, batch, pos, log, fails, waits, callFailed, backlog, startOffset >>
  /\ UNCHANGED cfgVars
  /\ UNCHANGED auxVars

\* if let Ok(updates) = core.bot.get_updates().limit(10).await { .. }
Startup(s) ==
  /\ pc[s] = "start"
  /\ ~Busy
  /\ \E ok \in BOOLEAN :
       LET off == IF ok THEN StartupOffset(AnswerLimited(pending, StartLimit), offset[s])
                  ELSE offset[s]
       IN /\ offset' = [offset EXCEPT ![s] = off]
          /\ startOffset' = [startOffset EXCEPT ![s] = off]
  /\ backlog' = [backlog EXCEPT ![s] = { u.id : u \in Range(pending) }]
  /\ pc' = [pc EXCEPT ![s] = "polling"]
  /\ UNCHANGED << pending, nextId, budget, predefined, selected,
                  optionsMessageId, userInput, batch, pos, log, fails, waits, callFailed >>
  /\ UNCHANGED cfgVars
  /\ UNCHANGED auxVars

\* core.bot.get_updates().offset(offset).timeout(10) answers Ok(updates)
PollOk(s) ==
  /\ pc[s] = "polling"
  /\ ~Busy
  /\ LET got == Answer(pending, offset[s])
     IN /\ pending' = got
        /\ batch' = [batch EXCEPT ![s] = got]
        /\ pc' = [pc EXCEPT ![s] = IF got = <<>> THEN PcAfterBatch ELSE "routing"]
  /\ pos' = [pos EXCEPT ![s] = 1]
  /\ callFailed' = [callFailed EXCEPT ![s] = FALSE]
  /\ fails' = [fails EXCEPT ![s] = 0]
  /\ waits' = [waits EXCEPT ![s] = 0]
  /\ UNCHANGED << nextId, budget, predefined, offset, selected,
                  optionsMessageId, userInput, log, backlog, startOffset >>
  /\ UNCHANGED cfgVars
  /\ UNCHANGED auxVars

\* the same call answers Err(_)
PollFail(s) ==
  /\ pc[s] = "polling"
  /\ ~Busy
  /\ budget > 0
  /\ budget' = budget - 1
  /\ pc' = [pc EXCEPT ![s] = "backoff"]
  /\ fails' = [fails EXCEPT ![s] = @ + 1]
  /\ offset' = [offset EXCEPT ![s] = OffsetAfterFailure(@)]
  /\ UNCHANGED << pending, nextId, predefined, selected, optionsMessageId,
                  userInput, batch, pos, log, waits, callFailed, backlog,
                  startOffset >>
  /\ UNCHANGED cfgVars
  /\ UNCHANGED auxVars

\* tokio::time::sleep(5 s) of the Err arm, then the 1 s sleep of the loop
BackoffWait(s) ==
  /\ pc[s] = "backoff"
  /\ waits' = [waits EXCEPT ![s] = @ + 1]
  /\ pc' = [pc EXCEPT ![s] = PcAfterBackoff]
  /\ UNCHANGED << pending, nextId, budget, predefined, offset, selected,
                  optionsMessageId, userInput, batch, pos, log, fails,
                  callFailed, backlog, startOffset >>
  /\ UNCHANGED cfgVars
  /\ UNCHANGED auxVars

\* one iteration of `for update in updates`
Route(s) ==
  /\ pc[s] = "routing"
  /\ LET u == NextUpdate(batch[s], pos[s])
         st == [sel |-> selected[s], owner |-> optionsMessageId[s], input |-> userInput[s]]
     IN \E ok \in BOOLEAN :
          LET r == RouteUpdate(s, u, st, HasOptions(predefined[s]), ok)
          IN /\ offset' = [offset EXCEPT ![s] = NextOffset(u.id)]
             /\ selected' = [selected EXCEPT ![s] = r.sel]
             /\ optionsMessageId' = [optionsMessageId EXCEPT ![s] = r.owner]
             /\ userInput' = [userInput EXCEPT ![s] = r.input]
             /\ log' = [log EXCEPT ![s] = @ \o <<Routed(s, u)>> \o r.out]
             /\ callFailed' = [callFailed EXCEPT ![s] = r.called /\ ~ok]
  /\ IF pos[s] = Len(batch[s])
     THEN /\ pc' = [pc EXCEPT ![s] = PcAfterBatch]
          /\ batch' = [batch EXCEPT ![s] = <<>>]
          /\ pos' = [pos EXCEPT ![s] = 1]
     ELSE /\ pos' = [pos EXCEPT ![s] = @ + 1]
          /\ UNCHANGED << pc, batch >>
  /\ UNCHANGED << pending, nextId, budget, predefined, fails, waits, backlog,
                  startOffset >>
  /\ UNCHANGED cfgVars
  /\ UNCHANGED auxVars

Next ==
  \/ Arrive
  \/ \E s \in Sessions : StartSync(s)
  \/ \E s \in Sessions : Startup(s)
  \/ \E s \in Sessions : PollOk(s)
  \/ \E s \in Sessions : PollFail(s)
  \/ \E s \in Sessions : BackoffWait(s)
  \/ \E s \in Sessions : Route(s)

Spec == Init /\ [][Next]_vars

\* ------------------------------------------ start_telegram_sync, step by step
\* One call of start_telegram_sync is about to take the configuration lock;
\* the configuration is whatever the user saved before.
ConfigInit ==
  /\ InitWith(0, 0)
  /\ AuxIdle
  /\ config \in TelegramConfigs
  /\ edits = 0
  /\ syncPc = "call"
  /\ result = "none"
  /\ local = NoLocal
  /\ configAtRead = NoConfig
  /\ apiUrl = "unset"
  /\ listenerPc = "none"
  /\ listenerUrl = "unset"
  /\ calls = {}

\* set_telegram_config: config.telegram_config = telegram_config (save_config
\* then writes the same value to the file).
SetTelegramConfig ==
  /\ syncPc # "idle"
  /\ edits < MaxEdits
  /\ edits' = edits + 1
  /\ \E c \in TelegramConfigs : config' = c
  /\ UNCHANGED << syncPc, result, local, configAtRead, apiUrl, listenerPc,
                  listenerUrl, calls >>
  /\ UNCHANGED listenerVars
  /\ UNCHANGED auxVars

\* the first lock: (enabled, bot_token, chat_id), then the two early returns
ReadConfig ==
  /\ syncPc = "call"
  /\ local' = [enabled |-> config.enabled, bot_token |-> config.bot_token,
               chat_id |-> config.chat_id]
  /\ configAtRead' = config
  /\ IF ~config.enabled
     THEN syncPc' = "returned" /\ result' = "Ok"
     ELSE IF ConfigIncomplete(config.bot_token, config.chat_id)
          THEN syncPc' = "returned" /\ result' = "Err"
          ELSE syncPc' = "readUrl" /\ result' = result
  /\ UNCHANGED << config, edits, apiUrl, listenerPc, listenerUrl, calls >>
  /\ UNCHANGED listenerVars
  /\ UNCHANGED auxVars

\* the second lock: api_base_url, then TelegramCore::new_with_api_url(..)?
ReadApiUrl ==
  /\ syncPc = "readUrl"
  /\ \E ok \in BOOLEAN :
       IF ok
       THEN apiUrl' = ApiUrlOption(config.api_base_url)
            /\ syncPc' = "sendOptions" /\ result' = result
       ELSE apiUrl' = apiUrl /\ syncPc' = "returned" /\ result' = "Err"
  /\ UNCHANGED << config, edits, local, configAtRead, listenerPc, listenerUrl, calls >>
  /\ UNCHANGED listenerVars
  /\ UNCHANGED auxVars

\* core.send_options_message(..).await?, then the 500 ms sleep
SendOptionsMessage ==
  /\ syncPc = "sendOptions"
  /\ calls' = calls \cup {Call("send_options_message", local.bot_token, local.chat_id, apiUrl)}
  /\ \E ok \in BOOLEAN :
       IF ok THEN syncPc' = "sendOperation" /\ result' = result
       ELSE syncPc' = "returned" /\ result' = "Err"
  /\ UNCHANGED << config, edits, local, configAtRead, apiUrl, listenerPc, listenerUrl >>
  /\ UNCHANGED listenerVars
  /\ UNCHANGED auxVars

\* core.send_operation_message(..).await?, then tokio::spawn and Ok(())
SendOperationMessage ==
  /\ syncPc = "sendOperation"
  /\ calls' = calls \cup {Call("send_operation_message", local.bot_token, local.chat_id, apiUrl)}
  /\ \E ok \in BOOLEAN :
       /\ syncPc' = "returned"
       /\ result' = (IF ok THEN "Ok" ELSE "Err")
       /\ listenerPc' = ListenerAfterOperation(ok, listenerPc)
  /\ UNCHANGED << config, edits, local, configAtRead, apiUrl, listenerUrl >>
  /\ UNCHANGED listenerVars
  /\ UNCHANGED auxVars

\* start_telegram_listener: the third lock (api_base_url) and its own core
ListenerStart ==
  /\ listenerPc = "spawned"
  /\ \E ok \in BOOLEAN :
       IF ok
       THEN listenerUrl' = ApiUrlOption(config.api_base_url) /\ listenerPc' = "polling"
       ELSE listenerUrl' = listenerUrl /\ listenerPc' = "failed"
  /\ UNCHANGED << config, edits, syncPc, result, local, configAtRead, apiUrl, calls >>
  /\ UNCHANGED listenerVars
  /\ UNCHANGED auxVars

\* core.bot.get_updates() of the listener, with the token and chat id it was
\* passed and the URL it read
ListenerGetUpdates ==
  /\ listenerPc = "polling"
  /\ calls' = calls \cup {Call("get_updates", local.bot_token, local.chat_id, listenerUrl)}
  /\ UNCHANGED << config, edits, syncPc, result, local, configAtRead, apiUrl,
                  listenerPc, listenerUrl >>
  /\ UNCHANGED listenerVars
  /\ UNCHANGED auxVars

ConfigNext ==
  \/ SetTelegramConfig
  \/ ReadConfig
  \/ ReadApiUrl
  \/ SendOptionsMessage
  \/ SendOperationMessage
  \/ ListenerStart
  \/ ListenerGetUpdates

ConfigSpec == ConfigInit /\ [][ConfigNext]_vars

\* ------------------------------------------------------- auto_get_chat_id
\* What one bot.get_updates().send() of the detection task can answer: an
\* error, no update, updates none of which is a Message, updates with a Message.
PollOutcomes == {"err", "empty", "other", "message"}

\* (mutant) the task gives up one iteration late
TimeoutReachedLate(count) == count > MaxTimeoutCount

\* if timeout_count >= MAX_TIMEOUT_COUNT
TimeoutReached(count) == count >= MaxTimeoutCount

\* One call of auto_get_chat_id has begun.
DetectInit ==
  /\ InitWith(0, 0)
  /\ ConfigIdle
  /\ detection = [NoDetection EXCEPT !.pc = "called"]
  /\ window = NoWindow
  /\ cast = NoCast

\* auto_get_chat_id: emit "chat-id-detection-started", spawn the task, Ok(())
AutoGetChatId ==
  /\ detection.pc = "called"
  /\ detection' = [detection EXCEPT !.pc = "polling",
                                    !.events = Append(@, "chat-id-detection-started")]
  /\ UNCHANGED << listenerVars, cfgVars, window, cast >>

\* one iteration of the task's loop up to the sleep: the poll, the for loop
\* over its answer, the timeout check
DetectPoll ==
  /\ detection.pc = "polling"
  /\ \E outcome \in PollOutcomes :
       IF outcome = "message"
       THEN detection' = [detection EXCEPT !.pc = "done", !.polls = @ + 1,
                                           !.last = outcome,
                                           !.events = Append(@, "chat-id-detected")]
       ELSE LET c == detection.count + 1
            IN IF TimeoutReached(c)
               THEN detection' = [detection EXCEPT !.pc = "done", !.polls = @ + 1,
                                                   !.count = c, !.last = outcome,
                                                   !.events = Append(@, "chat-id-detection-timeout")]
               ELSE detection' = [detection EXCEPT !.pc = "sleeping", !.polls = @ + 1,
                                                   !.count = c, !.last = outcome]
  /\ UNCHANGED << listenerVars, cfgVars, window, cast >>

\* tokio::time::sleep(1 s), then the loop's next iteration
DetectSleep ==
  /\ detection.pc = "sleeping"
  /\ detection' = [detection EXCEPT !.pc = "polling"]
  /\ UNCHANGED << listenerVars, cfgVars, window, cast >>

DetectNext ==
  \/ AutoGetChatId
  \/ DetectPoll
  \/ DetectSleep

\* The runtime runs the command and the spawned task, every get_updates
\* request comes back (with an answer or an error) and the sleep ends.
DetectFairness ==
  /\ WF_vars(AutoGetChatId)
  /\ WF_vars(DetectPoll)
  /\ WF_vars(DetectSleep)

DetectSpec == DetectInit /\ [][DetectNext]_vars /\ DetectFairness

\* ------------------------------------------------ update_window_position
\* The x and y a caller can pass (i32): the ends of the valid range, their
\* neighbours, values inside and the ends of i32.
Coordinates ==
  { MinI32, -PositionLimit - 1, -PositionLimit, -1, 0, PositionLimit,
    PositionLimit + 1, MaxI32 }

\* (mutant) a check that looks at x only
IsPositionValidXOnly(x, y) == x \in (-PositionLimit)..PositionLimit

\* (-10000..=10000).contains(&x) && (-10000..=10000).contains(&y)
IsPositionValid(x, y) ==
  /\ x \in (-PositionLimit)..PositionLimit
  /\ y \in (-PositionLimit)..PositionLimit

\* The window position was never stored; update_window_position can be called.
WindowInit ==
  /\ InitWith(0, 0)
  /\ ConfigIdle
  /\ detection = NoDetection
  /\ window = [NoWindow EXCEPT !.result = "ready"]
  /\ cast = NoCast

\* update_window_position(x, y): the check, the assignment under the lock,
\* save_config (which writes the configuration to its file, or fails)
UpdateWindowPosition ==
  /\ window.result # "none"
  /\ window.moves < MaxMoves
  /\ \E x \in Coordinates, y \in Coordinates, saveOk \in BOOLEAN :
       IF ~IsPositionValid(x, y)
       THEN window' = [window EXCEPT !.moves = @ + 1, !.x = x, !.y = y, !.result = "Err"]
       ELSE LET p == [set |-> TRUE, x |-> x, y |-> y]
            IN window' = [window EXCEPT !.moves = @ + 1, !.x = x, !.y = y,
                                        !.pos = p,
                                        !.saved = IF saveOk THEN p ELSE @,
                                        !.result = IF saveOk THEN "Ok" ELSE "Err"]
  /\ UNCHANGED << listenerVars, cfgVars, detection, cast >>

WindowNext == UpdateWindowPosition

WindowSpec == WindowInit /\ [][WindowNext]_vars

\* ------------------------------------------- update.id.0 as i32 + 1
\* An update id is a u32, written here as its two 16-bit halves (hi, lo):
\* id = hi * 65536 + lo. The offset is an i32.
HalfWord == 65536
HighHalves == { 0, 1, 32766, 32767, 32768, 32769, 65534, 65535 }
LowHalves == { 0, 1, 2, 32767, 32768, 65533, 65534, 65535 }

\* `as i32` of a u32: the same 32 bits read as two's complement
AsI32(hi, lo) ==
  IF hi < HalfWord \div 2 THEN hi * HalfWord + lo ELSE (hi - HalfWord) * HalfWord + lo

\* `+ 1` on an i32 in a build without overflow checks: it wraps
WrappingAddOne(v) == IF v = MaxI32 THEN MinI32 ELSE v + 1

\* `+ 1` overflows exactly at i32::MAX
AddOneOverflows(v) == v = MaxI32

\* The for loop is at an update whose id the API chose.
CastInit ==
  /\ InitWith(0, 0)
  /\ ConfigIdle
  /\ detection = NoDetection
  /\ window = NoWindow
  /\ \E hi \in HighHalves, lo \in LowHalves :
       cast = [pc |-> "ready", hi |-> hi, lo |-> lo, offset |-> 0]

\* offset = update.id.0 as i32 + 1; with overflow checks (a debug build) an
\* overflowing `+ 1` panics and the task ends, without them it wraps.
CastOffset ==
  /\ cast.pc = "ready"
  /\ LET v == AsI32(cast.hi, cast.lo)
     IN \E checked \in BOOLEAN :
          IF checked /\ AddOneOverflows(v)
          THEN cast' = [cast EXCEPT !.pc = "panicked"]
          ELSE cast' = [cast EXCEPT !.pc = "done", !.offset = WrappingAddOne(v)]
  /\ UNCHANGED << listenerVars, cfgVars, detection, window >>

CastNext == CastOffset

CastSpec == CastInit /\ [][CastNext]_vars

\* ------------------------------------------------------------- queries
SetMax(S) == CHOOSE x \in S : \A y \in S : y <= x

Started(s) == pc[s] \notin {"none", "start"}

\* the update the for loop of session s is at
Current(s) == batch[s][pos[s]]

\* what a step of session s appended to its log
Appended(s) == SubSeq(log'[s], Len(log[s]) + 1, Len(log'[s]))

\* ids of the updates session s routed
RoutedIds(s) == { log[s][i].u : i \in { j \in DOMAIN log[s] : log[s][j].t = "route" } }

\* how many times update id was routed, by whichever listener
TimesRouted(id) ==
  Cardinality({ <<s, i>> \in Sessions \X (1..(3 * (nextId + 1))) :
                  i \in DOMAIN log[s] /\ log[s][i].t = "route" /\ log[s][i].u = id })

IsEmit(e, name) == e.t = "emit" /\ e.name = name

\* text of the last TextUpdated event of l before position i ("" if none)
TextBefore(l, i) ==
  LET J == { j \in 1..(i - 1) : IsEmit(l[j], "TextUpdated") }
  IN IF J = {} THEN "" ELSE l[SetMax(J)].text

\* labels whose last OptionToggled event of l before position i says selected
OptionsBefore(l, i) ==
  LET T == { j \in 1..(i - 1) : IsEmit(l[j], "OptionToggled") }
  IN { l[j].text : j \in { k \in T : l[k].flag /\ \A m \in T : m > k => l[m].text # l[k].text } }

\* --------------------------------------------------------------- claims

C2_BackoffKeepsState ==
  [][\A s \in Sessions :
       /\ ((pc[s] = "polling" /\ pc'[s] = "backoff") \/ pc[s] = "backoff")
            => /\ offset'[s] = offset[s]
               /\ selected'[s] = selected[s]
               /\ optionsMessageId'[s] = optionsMessageId[s]
               /\ userInput'[s] = userInput[s]
               /\ log'[s] = log[s]
               /\ pending' = pending
       /\ (pc[s] = "polling" /\ pc'[s] = "backoff") => fails'[s] = fails[s] + 1
       /\ (pc[s] = "backoff" /\ pc'[s] # "backoff")
            => pc'[s] = "polling" /\ waits'[s] = waits[s] + 1
       /\ pc'[s] = "polling" => waits'[s] = fails'[s]
       /\ pc'[s] = "backoff" => waits'[s] + 1 = fails'[s]
       /\ (fails[s] > 0 /\ fails'[s] = 0)
            => pending' = Answer(pending, offset[s])]_vars

\* C2 witness: two failures in a row and two waits, the listener is at its
\* getUpdates call again.
C2_Witness ==
  \E s \in Sessions :
    /\ pc[s] = "polling"
    /\ fails[s] = 2
    /\ waits[s] = 2
    /\ predefined[s] # <<>>

\* C3: once options_message_id is set, no later update changes it.
C3_OwnerFirstWriteWins ==
  [][\A s \in Sessions :
       (Started(s) /\ optionsMessageId[s] # NoMsg)
         => optionsMessageId'[s] = optionsMessageId[s]]_vars

\* C4: the selected options are among the predefined options.
C4_SelectedSubset ==
  \A s \in Sessions : selected[s] \subseteq Range(predefined[s])

\* a step of session s that routes the update its for loop is at
RouteStep(s) == pc[s] = "routing" /\ log'[s] # log[s]

IsToggle(u) == u.kind = "callback" /\ u.data = "toggle"

IsSend(e) ==
  /\ e.t = "route"
  /\ \/ e.name = "callback" /\ e.text = "send"
     \/ e.name = "message" /\ e.text = SendCommand

IsSendFeedback(e) == e.t = "send" /\ e.name = "feedback" /\ ~e.flag

\* C5: with options, routing a toggle of label A flips A's membership and
\* leaves the other labels alone, emits one OptionToggled event whose flag is
\* A's membership after the toggle, and that flag is the opposite of the one
\* reported by the previous toggle of A (selected for the first one).
C5_ToggleCorrect ==
  [][\A s \in Sessions :
       (RouteStep(s) /\ IsToggle(Current(s)) /\ predefined[s] # <<>>)
         => LET a == Current(s).label
                new == Appended(s)
                evs == { i \in DOMAIN new : IsEmit(new[i], "OptionToggled") }
            IN /\ selected'[s] = (selected[s] \cup {a}) \ (selected[s] \cap {a})
               /\ Cardinality(evs) = 1
               /\ \A i \in evs :
                    /\ new[i].text = a
                    /\ new[i].flag = (a \in selected'[s])
                    /\ new[i].flag = (a \notin OptionsBefore(log[s], Len(log[s]) + 1))
               /\ selected[s] = {} => selected'[s] = {a}]_vars

\* C5 witness: Yes toggled on, then off again, and the set is empty.
C5_Witness ==
  \E s \in Sessions :
    /\ selected[s] = {}
    /\ \E i, j \in DOMAIN log[s] :
         /\ i < j
         /\ IsEmit(log[s][i], "OptionToggled") /\ log[s][i].text = "Yes" /\ log[s][i].flag
         /\ IsEmit(log[s][j], "OptionToggled") /\ log[s][j].text = "Yes" /\ ~log[s][j].flag

\* C6: after a startup call that found updates, the offset is the id of the
\* latest update pending at that moment plus one, and the listener never
\* routes an update that was pending then.
C6_BacklogDiscarded ==
  \A s \in Sessions :
    (Started(s) /\ startOffset[s] # 0)
      => /\ startOffset[s] = SetMax(backlog[s]) + 1
         /\ RoutedIds(s) \cap backlog[s] = {}

\* C7: no update is routed twice, and an update a listener has moved its
\* offset past was routed.
C7_ExactlyOnce ==
  \A id \in 1..(nextId - 1) :
    /\ TimesRouted(id) <= 1
    /\ \A s \in Sessions :
         (Started(s) /\ startOffset[s] <= id /\ id < offset[s]) => TimesRouted(id) = 1

Fairness ==
  \A s \in Sessions :
    /\ WF_vars(Startup(s))
    /\ WF_vars(PollOk(s))
    /\ WF_vars(BackoffWait(s))
    /\ WF_vars(Route(s))

FairSpec == InitLive /\ [][Next]_vars /\ Fairness

\* C9: a spawned listener always gets back to its getUpdates call.
C9_LoopNeverStops ==
  \A s \in Sessions : [](pc[s] # "none" => <>(pc[s] = "polling"))

\* C9 witness: a listener that handled Send is at its getUpdates call again.
C9_Witness ==
  \E s \in Sessions :
    /\ pc[s] = "polling"
    /\ \E i \in DOMAIN log[s] : IsEmit(log[s][i], "SendPressed")

\* C10: when the BotClient call of a routed update fails, the offset has
\* advanced, a toggle stays applied, the update's event is emitted, and the
\* for loop goes on to the next update of the batch (or back to polling).
C10_BestEffort ==
  [][\A s \in Sessions :
       (RouteStep(s) /\ callFailed'[s])
         => /\ offset'[s] = Current(s).id + 1
            /\ IsToggle(Current(s)) => selected'[s] # selected[s]
            /\ \E i \in DOMAIN Appended(s) :
                 Appended(s)[i].t = "emit" /\ Appended(s)[i].u = Current(s).id
            /\ IF pos[s] < Len(batch[s])
               THEN pc'[s] = "routing" /\ batch'[s] = batch[s] /\ pos'[s] = pos[s] + 1
               ELSE pc'[s] = "polling"]_vars

\* C10 witness: the keyboard edit of a toggle failed, the toggle stands and
\* the batch has another update to route.
C10_Witness ==
  \E s \in Sessions :
    /\ callFailed[s]
    /\ pc[s] = "routing"
    /\ selected[s] = {"Yes"}
    /\ optionsMessageId[s] # NoMsg

AllWhitespace(str) == \A i \in DOMAIN str : str[i] \in {" ", "\t"}

\* C11: when Telegram is enabled and the bot token or the chat id read by
\* start_telegram_sync is empty or all whitespace, the call returns an error,
\* no message is sent and no listener is spawned.
C11_ConfigErrorFailsFast ==
  (/\ syncPc \notin {"idle", "call"}
   /\ local.enabled
   /\ AllWhitespace(local.bot_token) \/ AllWhitespace(local.chat_id))
    => /\ syncPc = "returned"
       /\ result = "Err"
       /\ calls = {}
       /\ listenerPc = "none"

\* C11 witness: enabled, a token of blanks and a good chat id: the call
\* returned an error and nothing was sent.
C11_Witness ==
  /\ result = "Err"
  /\ local.enabled
  /\ local.bot_token = <<" ", "\t">>
  /\ local.chat_id = <<"7">>
  /\ calls = {}
  /\ listenerPc = "none"

\* C12: every call the session makes (its message sends and its polling) uses
\* the bot token, the chat id and the API base URL that the configuration
\* held at the one read at session start.
C12_ConfigCapturedOnce ==
  \A c \in calls :
    /\ c.token = configAtRead.bot_token
    /\ c.chat = configAtRead.chat_id
    /\ c.url = ApiUrlOption(configAtRead.api_base_url)

\* C13: whenever options_message_id is set, it is the id of a message that
\* carries the toggle keyboard (the options message, or a message whose
\* markup has a toggle button).
C13_OwnerCarriesKeyboard ==
  \A s \in Sessions :
    optionsMessageId[s] # NoMsg => optionsMessageId[s] \in {OptionsMsg, OtherKbMsg}

\* C14: without predefined options the keyboard owner stays None and the
\* selection stays empty, and a routed toggle changes nothing, emits nothing
\* and edits nothing; with options the owner leaves None only while routing a
\* callback query that carries a message or a message with a toggle keyboard.
C14_NoOptionsMode ==
  [][\A s \in Sessions :
       /\ predefined'[s] = <<>>
            => optionsMessageId'[s] = NoMsg /\ selected'[s] = {}
       /\ (RouteStep(s) /\ IsToggle(Current(s)) /\ predefined[s] = <<>>)
            => /\ selected'[s] = selected[s]
               /\ optionsMessageId'[s] = optionsMessageId[s]
               /\ userInput'[s] = userInput[s]
               /\ \A i \in DOMAIN Appended(s) : Appended(s)[i].t = "route"
       /\ (optionsMessageId[s] = NoMsg /\ optionsMessageId'[s] # NoMsg)
            => /\ RouteStep(s)
               /\ predefined[s] # <<>>
               /\ \/ Current(s).kind = "callback" /\ Current(s).msg # NoMsg
                  \/ Current(s).kind = "message" /\ Current(s).kb]_vars

\* C14 witness: a session without options routed a toggle and a message with
\* a toggle keyboard; nothing but the message's text event came of it.
C14_Witness ==
  \E s \in Sessions :
    /\ Started(s)
    /\ predefined[s] = <<>>
    /\ optionsMessageId[s] = NoMsg
    /\ selected[s] = {}
    /\ \E i \in DOMAIN log[s] :
         log[s][i].t = "route" /\ log[s][i].name = "callback" /\ log[s][i].text = "toggle"
    /\ \E i \in DOMAIN log[s] :
         log[s][i].t = "route" /\ log[s][i].msg = OtherKbMsg
    /\ \A i \in DOMAIN log[s] :
         log[s][i].t # "route" => IsEmit(log[s][i], "TextUpdated")

\* an update that asks for Send, Continue or Enhance
IsActionUpdate(u) ==
  \/ u.kind = "callback" /\ u.data \in {"send", "continue", "enhance"}
  \/ u.kind = "message" /\ u.text \in {SendCommand, ContinueCommand}

\* an update that carries new text
IsTextUpdate(u) ==
  u.kind = "message" /\ u.text \notin {"", SendCommand, ContinueCommand}

\* C15: the selection changes only while a toggle is routed, the user input
\* only while a text is routed, and routing Send, Continue or Enhance leaves
\* the selection, the user input and the keyboard owner as they were.
C15_FrameConditions ==
  [][\A s \in Sessions :
       /\ selected'[s] # selected[s] => RouteStep(s) /\ IsToggle(Current(s))
       /\ userInput'[s] # userInput[s] => RouteStep(s) /\ IsTextUpdate(Current(s))
       /\ (RouteStep(s) /\ IsActionUpdate(Current(s)))
            => /\ selected'[s] = selected[s]
               /\ userInput'[s] = userInput[s]
               /\ optionsMessageId'[s] = optionsMessageId[s]]_vars

\* C16: routing a text message makes the user input that text and nothing
\* else, emits one TextUpdated event carrying the text, and sends nothing.
C16_TextUpdated ==
  [][\A s \in Sessions :
       (RouteStep(s) /\ IsTextUpdate(Current(s)))
         => LET new == Appended(s)
                evs == { i \in DOMAIN new : new[i].t = "emit" }
            IN /\ userInput'[s] = Current(s).text
               /\ selected'[s] = selected[s]
               /\ Cardinality(evs) = 1
               /\ \A i \in evs :
                    IsEmit(new[i], "TextUpdated") /\ new[i].text = Current(s).text
               /\ \A i \in DOMAIN new : new[i].t \notin {"send", "edit"}]_vars

\* C16 witness: "confirmed" was typed, then "pick": the user input is "pick".
C16_Witness ==
  \E s \in Sessions :
    /\ userInput[s] = "pick"
    /\ \E i, j \in DOMAIN log[s] :
         /\ i < j
         /\ IsEmit(log[s][i], "TextUpdated") /\ log[s][i].text = "confirmed"
         /\ IsEmit(log[s][j], "TextUpdated") /\ log[s][j].text = "pick"

IsSendOrContinue(u) ==
  \/ u.kind = "callback" /\ u.data \in {"send", "continue"}
  \/ u.kind = "message" /\ u.text \in {SendCommand, ContinueCommand}

\* the same request made through the other affordance: the button for a
\* text command, the text command for a button
Twin(u) ==
  IF u.kind = "callback"
  THEN [u EXCEPT !.kind = "message", !.msg = UserMsg, !.data = "",
                 !.text = IF u.data = "send" THEN SendCommand ELSE ContinueCommand]
  ELSE [u EXCEPT !.kind = "callback", !.msg = OperationMsg, !.text = "",
                 !.data = IF u.text = SendCommand THEN "send" ELSE "continue"]

\* C17: a routed Send or Continue sends the feedback, emits the event and
\* leaves the session state exactly as the same request made through the
\* other affordance would in the same state; the feedback of Continue is built with
\* isContinue = true and empty options and text.
C17_UnifiedActions ==
  [][\A s \in Sessions :
       (RouteStep(s) /\ IsSendOrContinue(Current(s)))
         => LET st == [sel |-> selected[s], owner |-> optionsMessageId[s],
                       input |-> userInput[s]]
                r == RouteUpdate(s, Twin(Current(s)), st, predefined[s] # <<>>, TRUE)
                done == SelectSeq(Appended(s), LAMBDA e : e.t # "route")
            IN /\ done = r.out
               /\ selected'[s] = r.sel
               /\ userInput'[s] = r.input
               /\ optionsMessageId'[s] = r.owner
               /\ \A i \in DOMAIN done :
                    (done[i].t = "send" /\ done[i].flag)
                      => done[i].opts = {} /\ done[i].text = ""]_vars

\* C18: a listener routes the update its for loop is at, the updates of an
\* answer one after the other from the first, and always one with a larger
\* id than every update it routed before, which is the order of the API's
\* answers; whatever an update causes (events, sends, edits) is in the log
\* right after its routing and before the next routing, so events are in
\* the order of their updates; nothing but routing adds to the log.
C18_OrderedProcessing ==
  [][\A s \in Sessions :
       /\ log'[s] # log[s] => pc[s] = "routing"
       /\ RouteStep(s)
            => LET new == Appended(s)
                   l == log[s]
               IN /\ SubSeq(log'[s], 1, Len(l)) = l
                  /\ new[1].t = "route"
                  /\ new[1].u = batch[s][pos[s]].id
                  /\ \A id \in RoutedIds(s) : id < new[1].u
                  /\ \A k \in 1..(pos[s] - 1) : batch[s][k].id \in RoutedIds(s)
                  /\ \A i \in 2..Len(new) : new[i].t # "route" /\ new[i].u = new[1].u
                  /\ \A i \in DOMAIN l : l[i].u < new[1].u
                  /\ IF pos[s] < Len(batch[s])
                     THEN batch'[s] = batch[s] /\ pos'[s] = pos[s] + 1
                     ELSE pc'[s] = "polling"]_vars

\* C18 witness: a listener routed two updates, a typed text and then a
\* pressed Send; the text's event comes first, and the feedback of the Send
\* sits between the routing of the Send and its event.
C18_Witness ==
  \E s \in Sessions :
    /\ pc[s] = "polling"
    /\ \E i \in DOMAIN log[s] :
         /\ i + 4 \in DOMAIN log[s]
         /\ log[s][i].t = "route"
         /\ IsEmit(log[s][i + 1], "TextUpdated") /\ log[s][i + 1].u = log[s][i].u
         /\ log[s][i + 2].t = "route" /\ log[s][i + 2].u > log[s][i].u
         /\ log[s][i + 3].t = "send" /\ log[s][i + 3].u = log[s][i + 2].u
         /\ IsEmit(log[s][i + 4], "SendPressed") /\ log[s][i + 4].u = log[s][i + 2].u

\* C19: with options, routing a toggle emits one OptionToggled event with the
\* label and its membership after the toggle, then edits the keyboard if and
\* only if a keyboard owner is known; the edit goes to the owner's message
\* and carries the selection as it is after the toggle.
C19_ToggleSideEffects ==
  [][\A s \in Sessions :
       (RouteStep(s) /\ IsToggle(Current(s)) /\ predefined[s] # <<>>)
         => LET new == Appended(s)
                a == Current(s).label
                evs == { i \in DOMAIN new : new[i].t = "emit" }
                eds == { i \in DOMAIN new : new[i].t = "edit" }
            IN /\ Cardinality(evs) = 1
               /\ \A i \in evs :
                    /\ IsEmit(new[i], "OptionToggled")
                    /\ new[i].text = a
                    /\ new[i].flag = (a \in selected'[s])
               /\ (eds # {}) <=> (optionsMessageId'[s] # NoMsg)
               /\ Cardinality(eds) <= 1
               /\ \A i \in eds :
                    /\ new[i].msg = optionsMessageId'[s]
                    /\ new[i].opts = selected'[s]
                    /\ \A j \in evs : j < i
               /\ (optionsMessageId[s] # NoMsg)
                    => optionsMessageId'[s] = optionsMessageId[s]
               /\ \A i \in DOMAIN new : new[i].t # "send"]_vars

\* C19 witness: a toggle of Yes that came without a message while no owner
\* was known (event, no edit), then a toggle of Yes on the options message
\* (event, and an edit of that message with the empty selection).
C19_Witness ==
  \E s \in Sessions :
    LET done == SelectSeq(log[s], LAMBDA e : e.t # "route")
    IN /\ Len(done) = 3
       /\ IsEmit(done[1], "OptionToggled") /\ done[1].flag
       /\ IsEmit(done[2], "OptionToggled") /\ ~done[2].flag
       /\ done[3].t = "edit" /\ done[3].msg = OptionsMsg /\ done[3].opts = {}
       /\ optionsMessageId[s] = OptionsMsg

\* C20: routing Enhance sends one acknowledgment and emits one EnhancePressed
\* event, both carrying the text of the last TextUpdated event ("" if none);
\* it sends no feedback, edits nothing and leaves the user input as it was.
C20_EnhancePressed ==
  [][\A s \in Sessions :
       (RouteStep(s) /\ Current(s).kind = "callback" /\ Current(s).data = "enhance")
         => LET new == Appended(s)
                typed == TextBefore(log[s], Len(log[s]) + 1)
                evs == { i \in DOMAIN new : new[i].t = "emit" }
                snd == { i \in DOMAIN new : new[i].t = "send" }
            IN /\ Cardinality(snd) = 1
               /\ \A i \in snd : new[i].name = "enhanceAck" /\ new[i].text = typed
               /\ Cardinality(evs) = 1
               /\ \A i \in evs : IsEmit(new[i], "EnhancePressed") /\ new[i].text = typed
               /\ \A i \in DOMAIN new : new[i].t # "edit"
               /\ userInput'[s] = userInput[s]
               /\ userInput[s] = typed
               /\ selected'[s] = selected[s]]_vars

\* C20 witness: "confirmed" was typed, Enhance pressed: the acknowledgment
\* and the event carry "confirmed" and the user input still is "confirmed".
C20_Witness ==
  \E s \in Sessions :
    /\ userInput[s] = "confirmed"
    /\ \E i, j \in DOMAIN log[s] :
         /\ i < j
         /\ log[s][i].t = "send" /\ log[s][i].name = "enhanceAck"
         /\ log[s][i].text = "confirmed"
         /\ IsEmit(log[s][j], "EnhancePressed") /\ log[s][j].text = "confirmed"

\* C21: with options, a routed message whose markup has a toggle button only
\* sets the keyboard owner: the user input stays as it was and no event is
\* emitted and no message sent for it.
C21_OwnerMessageOnly ==
  [][\A s \in Sessions :
       (/\ RouteStep(s)
        /\ Current(s).kind = "message"
        /\ Current(s).kb
        /\ predefined[s] # <<>>)
         => /\ userInput'[s] = userInput[s]
            /\ selected'[s] = selected[s]
            /\ \A i \in DOMAIN Appended(s) : Appended(s)[i].t = "route"]_vars

\* the calls of `name` made so far
CallsOf(cs, name) == { c \in cs : c.call = name }

\* C22: start_telegram_sync sends the options message first, the operation
\* message only after the options message went out, and spawns the listener
\* only after both went out; a failed options message ends the call with an
\* error, no operation message and no listener; a failed operation message
\* ends it with an error and no listener; with Telegram disabled the call
\* returns Ok, nothing sent, nothing spawned; a returned call sends nothing
\* and spawns nothing afterwards.
C22_StartOrdering ==
  [][/\ (CallsOf(calls, "send_operation_message") = {}
          /\ CallsOf(calls', "send_operation_message") # {})
          => CallsOf(calls, "send_options_message") # {} /\ syncPc = "sendOperation"
     /\ (CallsOf(calls, "send_options_message") = {}
          /\ CallsOf(calls', "send_options_message") # {})
          => CallsOf(calls', "send_operation_message") = {} /\ listenerPc' = "none"
     /\ (listenerPc = "none" /\ listenerPc' # "none")
          => /\ CallsOf(calls, "send_options_message") # {}
             /\ CallsOf(calls', "send_operation_message") # {}
             /\ result' = "Ok"
             /\ listenerPc' = "spawned"
     /\ (syncPc = "sendOptions" /\ syncPc' = "returned")
          => /\ result' = "Err"
             /\ CallsOf(calls', "send_operation_message") = {}
             /\ listenerPc' = "none"
     /\ (syncPc = "sendOperation" /\ result' = "Err")
          => syncPc' = "returned" /\ listenerPc' = "none"
     /\ (syncPc = "call" /\ syncPc' # "call" /\ ~config.enabled)
          => /\ syncPc' = "returned" /\ result' = "Ok"
             /\ calls' = {} /\ listenerPc' = "none"
     /\ syncPc = "returned"
          => /\ syncPc' = "returned" /\ result' = result
             /\ CallsOf(calls', "send_options_message") = CallsOf(calls, "send_options_message")
             /\ CallsOf(calls', "send_operation_message") = CallsOf(calls, "send_operation_message")
             /\ (listenerPc = "none" => listenerPc' = "none")
     /\ (CallsOf(calls', "get_updates") # {}) => listenerPc' = "polling"]_vars

\* C22 witness: both messages went out, the call returned Ok and the
\* listener made its first get_updates call.
C22_Witness ==
  /\ result = "Ok"
  /\ local.enabled
  /\ CallsOf(calls, "send_options_message") # {}
  /\ CallsOf(calls, "send_operation_message") # {}
  /\ CallsOf(calls, "get_updates") # {}

\* positions of the detection events that end the task
EndEvents ==
  { i \in DOMAIN detection.events :
      detection.events[i] \in {"chat-id-detected", "chat-id-detection-timeout"} }

\* what holds of the detection task in every state
DetectionSafe ==
  /\ detection.polls <= MaxTimeoutCount
  /\ detection.pc \notin {"idle", "called"}
       => detection.events # <<>> /\ detection.events[1] = "chat-id-detection-started"
  /\ \A i \in DOMAIN detection.events :
       detection.events[i] = "chat-id-detection-started" => i = 1
  /\ Cardinality(EndEvents) = (IF detection.pc = "done" THEN 1 ELSE 0)
  /\ \A i \in EndEvents :
       /\ i = Len(detection.events)
       /\ detection.events[i] = "chat-id-detected" <=> detection.last = "message"
       /\ detection.events[i] = "chat-id-detection-timeout"
            => detection.polls = MaxTimeoutCount

\* C23: the detection task emits chat-id-detection-started first, makes at
\* most 30 polls, and ends, having emitted exactly one of chat-id-detected
\* (at the first poll that answers with a Message) and
\* chat-id-detection-timeout (after 30 polls without one); before it ends it
\* has emitted neither.
C23_DetectionTerminates ==
  /\ []DetectionSafe
  /\ <>(detection.pc = "done")

\* C23 witness: 29 polls failed or brought no message, the 30th brought a
\* message: the task ended with chat-id-detected and no timeout event.
C23_Witness ==
  /\ detection.pc = "done"
  /\ detection.polls = MaxTimeoutCount
  /\ detection.count = MaxTimeoutCount - 1
  /\ detection.events = <<"chat-id-detection-started", "chat-id-detected">>

\* C24: a call of update_window_position with x or y below -10000 or above
\* 10000 returns an error and leaves the stored and the saved position as they
\* were; a call with both within -10000..10000 sets the stored position to
\* exactly (x, y), and what is saved is that position or what was saved before.
C24_ValidateBeforeMutate ==
  [][window' # window
       => LET x == window'.x
              y == window'.y
          IN /\ window'.moves = window.moves + 1
             /\ IF x < -10000 \/ x > 10000 \/ y < -10000 \/ y > 10000
                THEN /\ window'.result = "Err"
                     /\ window'.pos = window.pos
                     /\ window'.saved = window.saved
                ELSE /\ window'.pos = [set |-> TRUE, x |-> x, y |-> y]
                     /\ window'.saved \in {window'.pos, window.saved}
                     /\ window'.result = "Ok" => window'.saved = window'.pos]_vars

\* C24 witness: (-1, -10000) was stored and saved, then (0, 10001) was
\* refused and the position still is (-1, -10000).
C24_Witness ==
  /\ window.moves = 2
  /\ window.x = 0 /\ window.y = PositionLimit + 1
  /\ window.result = "Err"
  /\ window.pos = [set |-> TRUE, x |-> -1, y |-> -PositionLimit]
  /\ window.saved = window.pos

\* C25: for every update id of the u32 range the assignment completes and
\* the offset is the id plus one as a number, hence positive: taking one off
\* the offset gives back the id.
C25_CastNeverWraps ==
  cast.pc \in {"done", "panicked"}
    => /\ cast.pc = "done"
       /\ cast.offset >= 1
       /\ (cast.offset - 1) \div 65536 = cast.hi
       /\ (cast.offset - 1) % 65536 = cast.lo

====
